---- MODULE Spec2Model ----
(***************************************************************************)
(* Two-phase simplex of src/simplex.py: solve_canonical_LP (the pivot      *)
(* loop), transform_canonical (objective-row re-canonicalisation) and      *)
(* solve_LP (phase 1 / phase 2 orchestration).                             *)
(*                                                                         *)
(* Numbers.  The program computes in IEEE-754 doubles.  The model computes *)
(* in exact rationals extended with the IEEE special values, so that a     *)
(* division by a zero pivot yields what numpy yields (inf / nan, no        *)
(* exception).  A value is a pair <<n, d>>:                                *)
(*     d > 0, n # 0, gcd(|n|, d) = 1   the rational n/d                    *)
(*     <<0, 1>> / <<0, -1>>            +0.0 / -0.0                         *)
(*     <<1, 0>> / <<-1, 0>>            +inf / -inf                         *)
(*     <<0, 0>>                        nan                                 *)
(* Rounding error of finite results is not modelled.                       *)
(***************************************************************************)
EXTENDS Integers, Sequences, FiniteSets, TLC

\* ------------------------------------------------------------------ bounds

\* Number of constraint rows of the standardized tableau.
NumRows == 2
\* Number of structural (non-basic at start) columns; var_number of solve_LP.
NumVars == 2
\* Largest constraint coefficient of the input (the smallest is -1, the
\* coefficient of a surplus column).
MaxCoef == 2
\* Largest absolute value of an objective coefficient of the input.
MaxCost == 1
\* Largest right-hand side of the input.
MaxRhs == 2

\* ------------------------------------------------------------ IEEE values

NaN == <<0, 0>>
PInf == <<1, 0>>
NInf == <<-1, 0>>
Zero == <<0, 1>>
NegZero == <<0, -1>>
One == <<1, 1>>

Abs(k) == IF k < 0 THEN -k ELSE k

RECURSIVE GCD(_, _)
GCD(a, b) == IF b = 0 THEN a ELSE GCD(b, a % b)

\* The rational n/d (n # 0, d > 0) in lowest terms.
Norm(n, d) == LET g == GCD(Abs(n), d) IN <<n \div g, d \div g>>

\* An integer literal of the input as a double.
Flt(k) == <<k, 1>>

IsNaN(x) == x = NaN
IsInf(x) == x[2] = 0 /\ x[1] # 0
IsZero(x) == x[1] = 0 /\ x[2] # 0
IsFinite(x) == x[2] # 0

\* Sign bit of a non-nan value as +1 / -1.
Sgn(x) == IF x[1] > 0 THEN 1
          ELSE IF x[1] < 0 THEN -1
          ELSE IF x[2] < 0 THEN -1 ELSE 1

\* Unary minus (flips the sign bit; nan stays nan).
Neg(x) == IF IsNaN(x) THEN NaN
          ELSE IF IsZero(x) THEN <<0, -x[2]>>
          ELSE <<-x[1], x[2]>>

\* x * y.
Mul(x, y) ==
    IF IsNaN(x) \/ IsNaN(y) THEN NaN
    ELSE IF IsInf(x) \/ IsInf(y)
         THEN IF IsZero(x) \/ IsZero(y) THEN NaN ELSE <<Sgn(x) * Sgn(y), 0>>
    ELSE IF IsZero(x) \/ IsZero(y) THEN <<0, Sgn(x) * Sgn(y)>>
    ELSE Norm(x[1] * y[1], x[2] * y[2])

\* x / y (numpy: division by zero gives inf or nan, not an exception).
Div(x, y) ==
    IF IsNaN(x) \/ IsNaN(y) THEN NaN
    ELSE IF IsInf(x) THEN (IF IsInf(y) THEN NaN ELSE <<Sgn(x) * Sgn(y), 0>>)
    ELSE IF IsInf(y) THEN <<0, Sgn(x) * Sgn(y)>>
    ELSE IF IsZero(y) THEN (IF IsZero(x) THEN NaN ELSE <<Sgn(x) * Sgn(y), 0>>)
    ELSE IF IsZero(x) THEN <<0, Sgn(x) * Sgn(y)>>
    ELSE Norm(Sgn(y) * x[1] * y[2], x[2] * Abs(y[1]))

\* x + y (an exact zero sum is +0.0 unless both terms are -0.0).
Add(x, y) ==
    IF IsNaN(x) \/ IsNaN(y) THEN NaN
    ELSE IF IsInf(x) THEN (IF IsInf(y) /\ y # x THEN NaN ELSE x)
    ELSE IF IsInf(y) THEN y
    ELSE IF IsZero(x) /\ IsZero(y)
         THEN (IF x = NegZero /\ y = NegZero THEN NegZero ELSE Zero)
    ELSE IF IsZero(x) THEN y
    ELSE IF IsZero(y) THEN x
    ELSE LET n == x[1] * y[2] + y[1] * x[2]
         IN  IF n = 0 THEN Zero ELSE Norm(n, x[2] * y[2])

\* x - y.
Sub(x, y) == Add(x, Neg(y))

\* x < y (false when either is nan; -0.0 and +0.0 compare equal).
Lt(x, y) ==
    /\ ~IsNaN(x)
    /\ ~IsNaN(y)
    /\ IF IsInf(x) \/ IsInf(y)
       THEN (x = NInf /\ y # NInf) \/ (y = PInf /\ x # PInf)
       ELSE x[1] * Abs(y[2]) < y[1] * Abs(x[2])

\* x == y as numpy compares doubles.
Eq(x, y) ==
    /\ ~IsNaN(x)
    /\ ~IsNaN(y)
    /\ IF IsInf(x) \/ IsInf(y) THEN x = y
       ELSE x[1] * Abs(y[2]) = y[1] * Abs(x[2])

\* The tolerance 1e-10 is 1 / (EpsRoot * EpsRoot); the product does not fit
\* TLC's 32-bit integers, so comparisons with it divide twice by EpsRoot.
EpsRoot == 100000

\* n/d > 1e-10 for integers n, d > 0:  n * 1e10 > d  <=>  d \div n < 1e10.
PosGtEps(n, d) == (d \div n) \div EpsRoot < EpsRoot

\* n/d < 1e-10 for integers n, d > 0:  n * 1e10 < d.
PosLtEps(n, d) ==
    LET q == d \div n
    IN  \/ q \div EpsRoot > EpsRoot
        \/ q \div EpsRoot = EpsRoot /\ (q % EpsRoot > 0 \/ d % n > 0)

\* x > 1e-10.
GtEps(x) ==
    IF IsFinite(x)
    THEN (IF x[1] > 0 THEN PosGtEps(x[1], x[2]) ELSE FALSE)
    ELSE x = PInf

\* x < 1e-10.
LtEps(x) ==
    IF IsFinite(x)
    THEN (IF x[1] <= 0 THEN TRUE ELSE PosLtEps(x[1], x[2]))
    ELSE x = NInf

\* x < -1e-10.
LtNegEps(x) ==
    IF IsFinite(x)
    THEN (IF x[1] < 0 THEN PosGtEps(-x[1], x[2]) ELSE FALSE)
    ELSE x = NInf

\* abs(x) < 1e-10.
AbsLtEps(x) ==
    IF IsFinite(x)
    THEN (IF x[1] = 0 THEN TRUE ELSE PosLtEps(Abs(x[1]), x[2]))
    ELSE FALSE

\* ------------------------------------------------------------ the tableau

\* rows, columns = LP_matrix.shape
rows == NumRows + 1
columns == NumVars + NumRows + 1

RowIdx == 0 .. rows - 1
ColIdx == 0 .. columns - 1
\* Index set of c = LP_matrix[0, :columns-1] and of the solution vector.
VarIdx == 0 .. columns - 2
\* Index set of bases, b = LP_matrix[1:, columns-1] and bounds.
BaseIdx == 0 .. rows - 2

\* Smallest element of a non-empty set of indices (np.where(...)[0][0]).
First(S) == CHOOSE i \in S : \A k \in S : i <= k

\* s[lo] + s[lo+1] + ... + s[hi], the accumulation of np.dot.
RECURSIVE SumFrom(_, _, _)
SumFrom(s, lo, hi) ==
    IF lo = hi THEN s[lo] ELSE Add(SumFrom(s, lo, hi - 1), s[hi])

\* np.dot(X, Y) for X indexed by I x K and Y by K x J, K = 0 .. kmax.
Dot(X, Y, I, kmax, J) ==
    [i \in I |-> [j \in J |->
        SumFrom([k \in 0 .. kmax |-> Mul(X[i][k], Y[k][j])], 0, kmax)]]

\* solution = np.zeros_like(c); solution[bases] = b
\* (with a repeated index the last assignment stands).
SolutionOf(M, B) ==
    [j \in VarIdx |->
        IF \E r \in BaseIdx : B[r] = j
        THEN M[(CHOOSE r \in BaseIdx :
                    B[r] = j /\ \A q \in BaseIdx : B[q] = j => q <= r) + 1]
              [columns - 1]
        ELSE Zero]

\* solution_value = -LP_matrix[0, columns - 1]
ValueOf(M) == Neg(M[0][columns - 1])

\* ------------------------------------------------------ solve_canonical_LP

\* The two value assertions on entry: np.all(np.abs(LP_matrix[0, bases]) <
\* 1e-10) and np.all(LP_matrix[1:, columns-1] > 1e-10).
EntryChecks(M, B) ==
    /\ \A r \in BaseIdx : AbsLtEps(M[0][B[r]])
    /\ \A r \in BaseIdx : GtEps(M[r + 1][columns - 1])

\* neg_obj_coefs = np.where(c < -1e-10)[0]
neg_obj_coefs(M) == {j \in VarIdx : LtNegEps(M[0][j])}

\* i_enter = neg_obj_coefs[0]
EnterCol(M) == First(neg_obj_coefs(M))

\* Rows that np.divide(..., where=(variable_coefs > 1e-10)) computes.
Computed(M, e) == {i \in BaseIdx : GtEps(M[i + 1][e])}

\* What the entries np.divide leaves unwritten may hold.  The result array is
\* allocated uninitialised (no out= is passed), so such an entry is any
\* double.  Only its order against the other entries matters afterwards:
\* +inf stands for every value that line 44 turns into inf or that loses the
\* argmin, 1/1000 for a value >= 1e-10 below every computed ratio, and nan
\* for nan.
Uninitialized == {PInf, NaN, <<1, 1000>>}

\* The possible contents of the entries of the result that np.divide skips,
\* each a value of U.
Unwritten(M, e, U) == [BaseIdx \ Computed(M, e) -> U]

\* bounds = np.divide(b, variable_coefs, where=(variable_coefs > 1e-10)),
\* with g the contents of the unwritten entries.
Ratios(M, e, g) ==
    [i \in BaseIdx |->
        IF i \in Computed(M, e)
        THEN Div(M[i + 1][columns - 1], M[i + 1][e])
        ELSE g[i]]

\* bounds[bounds < 1e-10] = float('Inf')
Bounds(M, e, g) ==
    [i \in BaseIdx |->
        IF LtEps(Ratios(M, e, g)[i]) THEN PInf ELSE Ratios(M, e, g)[i]]

\* np.all(bounds == float('Inf'))
NoBound(bnd) == \A i \in BaseIdx : Eq(bnd[i], PInf)

\* np.argmin(bounds): the first nan if there is one, else the first minimum.
ArgMin(bnd) ==
    IF \E i \in BaseIdx : IsNaN(bnd[i])
    THEN First({i \in BaseIdx : IsNaN(bnd[i])})
    ELSE First({i \in BaseIdx : \A k \in BaseIdx : ~Lt(bnd[k], bnd[i])})

\* modify = identity; modify[:, i_leave] = -LP_matrix[:, i_enter] / pivot;
\* modify[i_leave, i_leave] = 1 / pivot     (l is the row of LP_matrix)
Modify(M, l, e) ==
    [i \in RowIdx |-> [k \in RowIdx |->
        IF k = l
        THEN (IF i = l THEN Div(One, M[l][e]) ELSE Div(Neg(M[i][e]), M[l][e]))
        ELSE IF i = k THEN One ELSE Zero]]

\* LP_matrix[:, :] = np.dot(modify, LP_matrix)
PivotOn(M, l, e) == Dot(Modify(M, l, e), M, RowIdx, rows - 1, ColIdx)

\* ----------------------------------------------------- transform_canonical

\* Variant of transform_canonical that updates the reduced costs only and
\* leaves the objective row's right-hand-side entry as it was.
transform_canonical_SkipRhs(M, B) ==
    [M EXCEPT ![0] =
        [j \in ColIdx |->
            IF j = columns - 1 THEN M[0][j]
            ELSE Sub(M[0][j],
                     SumFrom([r \in BaseIdx |-> Mul(M[0][B[r]], M[r + 1][j])],
                             0, rows - 2))]]

\* transformer = c_and_z[bases]; c_and_z -= np.dot(transformer, A_and_b)
transform_canonical(M, B) ==
    [M EXCEPT ![0] =
        [j \in ColIdx |->
            Sub(M[0][j],
                SumFrom([r \in BaseIdx |-> Mul(M[0][B[r]], M[r + 1][j])],
                        0, rows - 2))]]

\* ------------------------------------------------------------------ state

VARIABLES
    LP_matrix,          \* the tableau, mutated in place
    bases,              \* bases[r]: the basic column of constraint row r
    phase1_slack_vars,  \* the phase-1 auxiliary columns
    c,                  \* solve_LP's saved objective row
    solution,           \* the solution last returned by solve_canonical_LP
    solution_value,     \* the value last returned by solve_canonical_LP
    phase,              \* which call of solve_canonical_LP: 1 or 2
    pc                  \* position in solve_LP / solve_canonical_LP

vars == <<LP_matrix, bases, phase1_slack_vars, c, solution, solution_value,
          phase, pc>>

\* A local that has not been assigned yet.
None == <<>>

\* The columns that are basic in the standardizer's output.
SlackCols == NumVars .. columns - 2

\* The standardizer's output: the objective row carries the true objective
\* on the structural columns and 0 elsewhere, constraint row r has a unit
\* column at NumVars + r (its slack or auxiliary column) and a positive
\* right-hand side.
Standardized ==
    {[i \in RowIdx |-> [j \in ColIdx |->
        IF i = 0
        THEN (IF j < NumVars THEN Flt(cost[j]) ELSE Zero)
        ELSE IF j < NumVars THEN Flt(A[i - 1][j])
        ELSE IF j = columns - 1 THEN Flt(b[i - 1])
        ELSE IF j = NumVars + i - 1 THEN One ELSE Zero]] :
        cost \in [0 .. NumVars - 1 -> -MaxCost .. MaxCost],
        A \in [BaseIdx -> [0 .. NumVars - 1 -> -1 .. MaxCoef]],
        b \in [BaseIdx -> 1 .. MaxRhs]}

\* State after  ... = standardize(LP_matrix, var_constraints, ...)
Init ==
    /\ LP_matrix \in Standardized
    /\ bases = [r \in BaseIdx |-> NumVars + r]
    /\ phase1_slack_vars \in SUBSET SlackCols
    /\ c = None
    /\ solution = None
    /\ solution_value = None
    /\ phase = 0
    /\ pc = "start"

\* LP_matrix[0] = 0; LP_matrix[0, phase1_slack_vars] = 1
Phase1Objective(M, aux) ==
    [M EXCEPT ![0] = [j \in ColIdx |-> IF j \in aux THEN One ELSE Zero]]

\* LP_matrix[0, :columns-1] = c; LP_matrix[:, phase1_slack_vars] = 0
Phase2Objective(M, saved, aux) ==
    [i \in RowIdx |-> [j \in ColIdx |->
        IF j \in aux THEN Zero
        ELSE IF i = 0 /\ j < columns - 1 THEN saved[j]
        ELSE M[i][j]]]

\* solve_LP, "if phase1_slack_vars.size:" taken, up to the phase-1 call.
Phase1Setup ==
    /\ pc = "start"
    /\ phase1_slack_vars # {}
    /\ c' = [j \in VarIdx |-> LP_matrix[0][j]]
    /\ LP_matrix' = transform_canonical(
                        Phase1Objective(LP_matrix, phase1_slack_vars), bases)
    /\ phase' = 1
    /\ pc' = "enter"
    /\ UNCHANGED <<bases, phase1_slack_vars, solution, solution_value>>

\* solve_LP, no auxiliary columns: straight to the phase-2 call.
SkipPhase1 ==
    /\ pc = "start"
    /\ phase1_slack_vars = {}
    /\ phase' = 2
    /\ pc' = "enter"
    /\ UNCHANGED <<LP_matrix, bases, phase1_slack_vars, c, solution,
                   solution_value>>

\* solve_canonical_LP: the assertions hold, the loop is entered.
Enter ==
    /\ pc = "enter"
    /\ EntryChecks(LP_matrix, bases)
    /\ pc' = "loop"
    /\ UNCHANGED <<LP_matrix, bases, phase1_slack_vars, c, solution,
                   solution_value, phase>>

\* solve_canonical_LP: an assertion fails (AssertionError).
Reject ==
    /\ pc = "enter"
    /\ ~EntryChecks(LP_matrix, bases)
    /\ pc' = "invalid"
    /\ UNCHANGED <<LP_matrix, bases, phase1_slack_vars, c, solution,
                   solution_value, phase>>

\* One iteration that finds no negative reduced cost and returns.
Optimal ==
    /\ pc = "loop"
    /\ neg_obj_coefs(LP_matrix) = {}
    /\ solution' = SolutionOf(LP_matrix, bases)
    /\ solution_value' = ValueOf(LP_matrix)
    /\ pc' = "returned"
    /\ UNCHANGED <<LP_matrix, bases, phase1_slack_vars, c, phase>>

\* One iteration that raises ValueError("no bound found for this LP"), the
\* unwritten entries of bounds holding values of U.
UnboundedWith(U) ==
    /\ pc = "loop"
    /\ neg_obj_coefs(LP_matrix) # {}
    /\ \E g \in Unwritten(LP_matrix, EnterCol(LP_matrix), U) :
           NoBound(Bounds(LP_matrix, EnterCol(LP_matrix), g))
    /\ pc' = "unbounded"
    /\ UNCHANGED <<LP_matrix, bases, phase1_slack_vars, c, solution,
                   solution_value, phase>>

\* The iteration's writes when the unwritten entries of bounds hold g:
\* i_leave = np.argmin(bounds); bases[i_leave] = i_enter; the pivot.
\* The result is <<LP_matrix, bases>> after the iteration.
Pivoted(M, B, g) ==
    LET i_enter == EnterCol(M)
        i_leave == ArgMin(Bounds(M, i_enter, g))
    IN  <<PivotOn(M, i_leave + 1, i_enter), [B EXCEPT ![i_leave] = i_enter]>>

\* One iteration that pivots, the unwritten entries of bounds holding
\* values of U.
PivotWith(U) ==
    /\ pc = "loop"
    /\ neg_obj_coefs(LP_matrix) # {}
    /\ \E g \in Unwritten(LP_matrix, EnterCol(LP_matrix), U) :
           /\ ~NoBound(Bounds(LP_matrix, EnterCol(LP_matrix), g))
           /\ LP_matrix' = Pivoted(LP_matrix, bases, g)[1]
           /\ bases' = Pivoted(LP_matrix, bases, g)[2]
    /\ UNCHANGED <<phase1_slack_vars, c, solution, solution_value, phase, pc>>

\* The iteration with any contents of the unwritten entries.
Unbounded == UnboundedWith(Uninitialized)
Pivot == PivotWith(Uninitialized)

\* The iteration when the unwritten entries happen to hold a value that
\* line 44 turns into inf (fresh zero-filled memory, for instance).
UnboundedQuiet == UnboundedWith({PInf})
PivotQuiet == PivotWith({PInf})

\* Variant of the phase-1 test that compares the magnitude of the value:
\* abs(solution_value) > 1e-10.
Phase1Infeasible_Abs(v) ==
    IF IsFinite(v) THEN GtEps(<<Abs(v[1]), Abs(v[2])>>) ELSE IsInf(v)

\* if solution_value > 1e-10
Phase1Infeasible(v) == GtEps(v)

\* solve_LP: raise ValueError("phase 1 failed. The LP is not feasible").
Infeasible ==
    /\ pc = "returned"
    /\ phase = 1
    /\ Phase1Infeasible(solution_value)
    /\ pc' = "infeasible"
    /\ UNCHANGED <<LP_matrix, bases, phase1_slack_vars, c, solution,
                   solution_value, phase>>

\* solve_LP: phase 1 passed; restore the objective, clear the auxiliary
\* columns, re-canonicalise, and make the phase-2 call.
Phase2Setup ==
    /\ pc = "returned"
    /\ phase = 1
    /\ ~Phase1Infeasible(solution_value)
    /\ LP_matrix' = transform_canonical(
                        Phase2Objective(LP_matrix, c, phase1_slack_vars),
                        bases)
    /\ phase' = 2
    /\ pc' = "enter"
    /\ UNCHANGED <<bases, phase1_slack_vars, c, solution, solution_value>>

\* solution[neg_constraint_vars] = -solution[neg_constraint_vars];
\* solution = solution[:var_number]
PostProcess(sol, neg_constraint_vars) ==
    [j \in 0 .. NumVars - 1 |->
        IF j \in neg_constraint_vars THEN Neg(sol[j]) ELSE sol[j]]

\* solve_LP after the phase-2 call returns.  neg_constraint_vars is the
\* standardizer's sign-flip list, read here for the first time;
\* no_constraint_vars is empty (no unconstrained variable in the input).
Finish ==
    /\ pc = "returned"
    /\ phase = 2
    /\ \E neg_constraint_vars \in SUBSET (0 .. NumVars - 1) :
           solution' = PostProcess(solution, neg_constraint_vars)
    /\ pc' = "done"
    /\ UNCHANGED <<LP_matrix, bases, phase1_slack_vars, c, solution_value,
                   phase>>

Next ==
    \/ Phase1Setup
    \/ SkipPhase1
    \/ Enter
    \/ Reject
    \/ Optimal
    \/ Unbounded
    \/ Pivot
    \/ Infeasible
    \/ Phase2Setup
    \/ Finish

Spec == Init /\ [][Next]_vars

\* The runs of solve_LP in which no uninitialised entry of bounds survives
\* line 44: a subset of the runs of Spec.
NextQuiet ==
    \/ Phase1Setup
    \/ SkipPhase1
    \/ Enter
    \/ Reject
    \/ Optimal
    \/ UnboundedQuiet
    \/ PivotQuiet
    \/ Infeasible
    \/ Phase2Setup
    \/ Finish

SpecQuiet == Init /\ [][NextQuiet]_vars

\* --------------------------------------- transform_canonical on its own

\* A call of transform_canonical on a tableau with identity basic columns
\* whose objective row (right-hand side entry included) was overwritten
\* with arbitrary values.
InitTC ==
    /\ LP_matrix \in
          {[T EXCEPT ![0] = [j \in ColIdx |-> Flt(obj[j])]] :
              T \in {S \in Standardized : \A j \in VarIdx : IsZero(S[0][j])},
              obj \in [ColIdx -> -MaxCost .. MaxCost]}
    /\ bases = [r \in BaseIdx |-> NumVars + r]
    /\ phase1_slack_vars = {}
    /\ c = None
    /\ solution = None
    /\ solution_value = None
    /\ phase = 0
    /\ pc = "tc0"

\* The first call.
Transform ==
    /\ pc = "tc0"
    /\ LP_matrix' = transform_canonical(LP_matrix, bases)
    /\ pc' = "tc1"
    /\ UNCHANGED <<bases, phase1_slack_vars, c, solution, solution_value,
                   phase>>

\* A second call on the result.
TransformAgain ==
    /\ pc = "tc1"
    /\ LP_matrix' = transform_canonical(LP_matrix, bases)
    /\ pc' = "tc2"
    /\ UNCHANGED <<bases, phase1_slack_vars, c, solution, solution_value,
                   phase>>

NextTC == Transform \/ TransformAgain

SpecTC == InitTC /\ [][NextTC]_vars

\* ------------------------------------------------------------- properties

\* x >= -1e-10.
GeNegEps(x) == ~IsNaN(x) /\ ~LtNegEps(x)

\* x <= 1e-10.
LeEps(x) == ~IsNaN(x) /\ ~GtEps(x)

\* Two doubles with the same value (nan matching nan, -0.0 matching +0.0).
Same(x, y) == (IsNaN(x) /\ IsNaN(y)) \/ Eq(x, y)

\* b[r] = LP_matrix[r + 1, columns - 1]
Rhs(M, r) == M[r + 1][columns - 1]

\* A step of the loop of solve_canonical_LP that pivots.
PivotStep == pc = "loop" /\ pc' = "loop"

\* The basic columns restricted to the constraint rows form the identity.
IdentityBasis(M, B) ==
    \A r \in BaseIdx : \A q \in BaseIdx :
        Eq(M[q + 1][B[r]], IF q = r THEN One ELSE Zero)

\* The reduced cost at every basic column is 0.
ZeroBasicCosts(M, B) == \A r \in BaseIdx : Eq(M[0][B[r]], Zero)

\* C1: in the pivot loop (entry checks passed, any number of pivots made)
\* every constraint row's right-hand side is >= -eps.
C1_FeasibleAfterPivot ==
    pc = "loop" => \A r \in BaseIdx : GeNegEps(Rhs(LP_matrix, r))

\* C2: an iteration that selects an entering column raises Unbounded if and
\* only if no constraint row has a coefficient > eps in that column, and the
\* iteration that raises leaves tableau and basis unchanged.
C2_UnboundedIff ==
    [][(pc = "loop" /\ neg_obj_coefs(LP_matrix) # {}) =>
          /\ (pc' = "unbounded") <=>
                 (\A i \in BaseIdx :
                      ~GtEps(LP_matrix[i + 1][EnterCol(LP_matrix)]))
          /\ pc' = "unbounded" => UNCHANGED <<LP_matrix, bases>>]_vars

\* C3: with auxiliary columns, Infeasible is raised exactly when phase 1 has
\* returned (optimal) with a value > eps; it is raised in phase 1 only, and
\* after it nothing runs (no phase 2, no solution returned).
C3_InfeasibleIff ==
    /\ [][(pc' = "infeasible") <=>
              /\ pc = "returned"
              /\ phase = 1
              /\ GtEps(ValueOf(LP_matrix))]_vars
    /\ [][pc = "infeasible" => FALSE]_vars
    /\ [](pc = "infeasible" =>
              /\ phase = 1
              /\ phase1_slack_vars # {}
              /\ neg_obj_coefs(LP_matrix) = {}
              /\ solution_value = ValueOf(LP_matrix))

\* C3 witness: Infeasible has been raised.
C3_Witness == pc = "infeasible"

\* C4: when phase 1 returns a value <= eps, the returned solution is 0 at
\* every auxiliary column.
C4_PhaseHandoff ==
    (pc = "returned" /\ phase = 1 /\ LeEps(solution_value)) =>
        \A j \in phase1_slack_vars : Eq(solution[j], Zero)

\* C5: on a tableau with identity basic columns, one call of
\* transform_canonical zeroes the objective row at every basic column, makes
\* the objective row the old one minus the sum over constraint rows of (old
\* objective coefficient at the row's basic column) times the row, leaves
\* the constraint rows and the basis alone, and a second call changes
\* nothing.
C5_TransformCanonical ==
    /\ [][pc = "tc0" =>
              /\ \A j \in ColIdx :
                     Eq(LP_matrix'[0][j],
                        Sub(LP_matrix[0][j],
                            SumFrom([r \in BaseIdx |->
                                        Mul(LP_matrix[0][bases[r]],
                                            LP_matrix[r + 1][j])],
                                    0, rows - 2)))
              /\ \A i \in RowIdx \ {0} : LP_matrix'[i] = LP_matrix[i]
              /\ bases' = bases
              /\ ZeroBasicCosts(LP_matrix', bases')]_vars
    /\ [][pc = "tc1" => UNCHANGED <<LP_matrix, bases>>]_vars

\* C5 witness: both calls were made, the reduced costs of the basic columns
\* are zero, and the objective row is not trivial.
C5_Witness ==
    /\ pc = "tc2"
    /\ ZeroBasicCosts(LP_matrix, bases)
    /\ \E j \in 0 .. NumVars - 1 : ~IsZero(LP_matrix[0][j])
    /\ ~IsZero(LP_matrix[0][columns - 1])

\* The leaving row of the ratio test as specified: the lowest row attaining
\* the minimum of rhs / coefficient over all rows with coefficient > eps.
MinRatioRow(M, e) ==
    First({i \in Computed(M, e) :
              \A k \in Computed(M, e) :
                  ~Lt(Div(Rhs(M, k), M[k + 1][e]), Div(Rhs(M, i), M[i + 1][e]))})

\* C6: a pivot enters the smallest column with reduced cost < -eps and
\* leaves at the lowest row attaining the minimum ratio over all rows whose
\* entering coefficient exceeds eps (ratio 0 included).
C6_PivotSelection ==
    [][PivotStep =>
          /\ Computed(LP_matrix, EnterCol(LP_matrix)) # {}
          /\ bases' = [bases EXCEPT
                          ![MinRatioRow(LP_matrix, EnterCol(LP_matrix))] =
                              EnterCol(LP_matrix)]]_vars

\* Row i of the tableau after a pivot at row l, column e, from pre-pivot
\* values: the leaving row divided by the pivot entry, any other row minus
\* its entering coefficient times the rescaled leaving row.
PivotedRow(M, l, e, i) ==
    [j \in ColIdx |->
        IF i = l THEN Div(M[l][j], M[l][e])
        ELSE Sub(M[i][j], Mul(M[i][e], Div(M[l][j], M[l][e])))]

\* C7: a pivot is that simultaneous transformation, changes exactly one
\* basis entry (the leaving row's, to the entering column), and keeps the
\* tableau canonical (identity basic columns, zero basic reduced costs).
C7_PivotTransformation ==
    [][PivotStep =>
          /\ \E l \in BaseIdx :
                 /\ bases' = [bases EXCEPT ![l] = EnterCol(LP_matrix)]
                 /\ bases' # bases
                 /\ \A i \in RowIdx : \A j \in ColIdx :
                        Same(LP_matrix'[i][j],
                             PivotedRow(LP_matrix, l + 1,
                                        EnterCol(LP_matrix), i)[j])
          /\ (IdentityBasis(LP_matrix, bases)
                  /\ ZeroBasicCosts(LP_matrix, bases))
             => (IdentityBasis(LP_matrix', bases')
                     /\ ZeroBasicCosts(LP_matrix', bases'))]_vars

\* C8: throughout phase 2 every auxiliary column is zero in every row, and
\* no phase-2 pivot enters an auxiliary column.
C8_AuxStaysOut ==
    /\ [](phase = 2 =>
              \A i \in RowIdx : \A j \in phase1_slack_vars :
                  Eq(LP_matrix[i][j], Zero))
    /\ [][(PivotStep /\ phase = 2) =>
              EnterCol(LP_matrix) \notin phase1_slack_vars]_vars

\* The states <<LP_matrix, bases>> one pivoting iteration can lead to from
\* a state of the loop that has a negative reduced cost.
PivotOutcomes(M, B) ==
    IF neg_obj_coefs(M) = {} THEN {}
    ELSE {Pivoted(M, B, g) :
             g \in {h \in Unwritten(M, EnterCol(M), Uninitialized) :
                       ~NoBound(Bounds(M, EnterCol(M), h))}}

\* C9: the pivot loop stops because no tableau and basis is visited twice:
\* no state of the loop is reached again after one or two pivots.
C9_NoStateTwice ==
    pc = "loop" =>
        \A s \in PivotOutcomes(LP_matrix, bases) :
            /\ s # <<LP_matrix, bases>>
            /\ \A t \in PivotOutcomes(s[1], s[2]) : t # <<LP_matrix, bases>>

\* C10: when phase 1 ended with a value <= eps, the phase-2 call of
\* solve_canonical_LP passes its entry checks.
C10_Phase2Entry ==
    (pc = "enter" /\ phase = 2 /\ phase1_slack_vars # {}
        /\ LeEps(solution_value))
    => EntryChecks(LP_matrix, bases)

====
